---- MODULE Spec2Model ----
(***************************************************************************)
(* ZkLoginClient (src/lib/providers/index.ts): the zkLogin workflow        *)
(* orchestrator, its two prefixed browser stores (src/unnamed/part_000)    *)
(* and the helpers of src/lib/utils/index.ts it calls.                     *)
(*                                                                         *)
(* JavaScript runs one turn at a time: a turn starts with a caller's       *)
(* invocation or with the answer of an awaited adapter call and runs to    *)
(* the next await.  Every action below is one such turn, including the     *)
(* synchronous part of any method the turn calls itself (the auto-invoked  *)
(* next step).  A suspended invocation is an element of `pending`.         *)
(***************************************************************************)
EXTENDS Integers, Sequences, FiniteSets, Bags, TLC

VARIABLES
  state,           \* ZkLoginClient.state (ZkLoginState)
  sessionStorage,  \* the browser's sessionStorage: full key -> value
  localStorage,    \* the browser's localStorage: full key -> value
  pending,         \* bag of suspended async invocations
  emitted,         \* notifications emitted by the last turn, in order
  calls,           \* adapter calls issued by the last turn, in order
  done,            \* invocations that returned or threw in the last turn
  listeners,       \* EventEmitter.listeners: event -> handlers, in subscription order
  delivered        \* handler invocations of the last turn, in order

vars ==
  <<state, sessionStorage, localStorage, pending, emitted, calls, done,
    listeners, delivered>>

-----------------------------------------------------------------------------
(* Bounds and value sets *)

MaxPending == 2                 \* suspended invocations a caller may pile up
EpochWindow == 10               \* calculateMaxEpoch: currentEpoch + 10
CurrentEpochs == {0}            \* answers of the chain's getLatestSuiSystemState
Keys == {"k1", "k2"}            \* outcomes of Ed25519Keypair.generate()
Rands == {"r1"}                 \* outcomes of generateRandomness()
Salts == {"123"}                \* answers of the salt service
Balances == {"0"}               \* answers of getBalance
Proofs == {[t |-> "proof", id |-> "p1"]}   \* answers of the proof service
Providers == {"google", "facebook", "twitch", "apple", "custom"}

\* id_token values a callback URL can carry
TokOk == "tokSubAud"            \* decodable, carries sub and aud
TokNoSub == "tokNoSub"          \* decodable, no sub claim
TokBad == "garbage"             \* not decodable
Tokens == {TokOk, TokNoSub, TokBad}

Absent == [t |-> "absent"]      \* null / undefined
Present(x) == x.t # "absent"
Str(v) == [t |-> "str", v |-> v]
Corrupt == [t |-> "corrupt"]      \* a stored string that neither parses nor decodes
Truthy(x) == Present(x) /\ (x.t = "str" => x.v # "")

Max(a, b) == IF a >= b THEN a ELSE b
NoStep == -1                    \* handleError called without a step
NaN == -1                       \* parseInt of a string that is no number

-----------------------------------------------------------------------------
(* Conversions *)

\* Number.prototype.toString: decimal digits, most significant first
RECURSIVE toString(_)
toString(n) == IF n < 10 THEN <<n>> ELSE Append(toString(n \div 10), n % 10)

\* parseInt on a digit string
RECURSIVE parseInt(_)
parseInt(s) ==
  IF Len(s) = 0 THEN 0
  ELSE 10 * parseInt(SubSeq(s, 1, Len(s) - 1)) + s[Len(s)]

\* JSON.stringify; JSON.parse throws unless IsJSON
JSONstringify(v) == [t |-> "json", v |-> v]
IsJSON(s) == s.t = "json"
JSONparse(s) == s.v

\* jwtDecode succeeds on the token
Decodable(tok) == tok \in {TokOk, TokNoSub}
\* payload.sub and payload.aud are both there
HasSubAud(tok) == tok = TokOk
\* BigInt(userSalt) succeeds
Numeric(salt) == salt = "123"

\* decodeJwtToken's result
decodeJwtToken(tok) == [t |-> "jwt", token |-> tok]

\* generateZkLoginAddress succeeds / its result
CanDeriveAddress(tok, salt) == Decodable(tok) /\ HasSubAud(tok) /\ Numeric(salt)
generateZkLoginAddress(tok, salt) ==
  [t |-> "addr", address |-> <<"addr", tok, salt>>,
   addressSeed |-> <<"seed", salt, tok>>, balance |-> Absent]

calculateMaxEpoch(currentEpoch) == currentEpoch + EpochWindow

\* utils generateEphemeralKeyPair with the two random draws made explicit
generateEphemeralKeyPair(maxEpoch, k, r) ==
  [t |-> "kp", keyPair |-> k, maxEpoch |-> maxEpoch, randomness |-> r,
   nonce |-> <<k, maxEpoch, r>>]

-----------------------------------------------------------------------------
(* The prefixed stores: BrowserStorage over localStorage and               *)
(* BrowserSessionStorage over sessionStorage.  A browser store is a        *)
(* function from the full keys it holds to their values; a string is the   *)
(* sequence of its pieces, so that concatenation and startsWith are real.  *)

StoragePrefix == <<"zklogin_", "plus_">>   \* DEFAULT_CONFIG.storagePrefix
EPHEMERAL_KEYPAIR == <<"ephemeral_keypair">>
MAX_EPOCH == <<"max_epoch">>
RANDOMNESS == <<"randomness">>
USER_SALT == <<"user_salt">>
JWT_TOKEN == <<"jwt_token">>
ZKLOGIN_ADDRESS == <<"zklogin_address">>
ZK_PROOF == <<"zk_proof">>
STORAGE_KEYS ==
  {EPHEMERAL_KEYPAIR, MAX_EPOCH, RANDOMNESS, USER_SALT, JWT_TOKEN,
   ZKLOGIN_ADDRESS, ZK_PROOF}

\* a record another application of the same origin keeps in localStorage
ForeignKey == <<"other_", "user_salt">>
ForeignStore == (ForeignKey :> Str("foreign"))
EmptyStore == [k \in {} |-> Absent]

getKey(prefix, key) == prefix \o key
startsWith(s, prefix) ==
  Len(s) >= Len(prefix) /\ SubSeq(s, 1, Len(prefix)) = prefix

StoreGet(store, prefix, key) ==
  IF getKey(prefix, key) \in DOMAIN store THEN store[getKey(prefix, key)] ELSE Absent
StoreSet(store, prefix, key, value) ==
  [k \in DOMAIN store \cup {getKey(prefix, key)} |->
     IF k = getKey(prefix, key) THEN value ELSE store[k]]
StoreRemove(store, prefix, key) ==
  [k \in DOMAIN store \ {getKey(prefix, key)} |-> store[k]]
\* clear() with the startsWith test the wrong way round
StoreClearReversed(store, prefix) ==
  [k \in {x \in DOMAIN store : ~startsWith(prefix, x)} |-> store[k]]
StoreClear(store, prefix) ==
  [k \in {x \in DOMAIN store : ~startsWith(x, prefix)} |-> store[k]]

-----------------------------------------------------------------------------
(* The machine: what one turn reads and writes.  st, ss, ls and pend are   *)
(* the program's state; ev, calls and fin collect what the turn did.       *)

InitialState ==
  [currentStep |-> 0, isReady |-> FALSE, error |-> Absent,
   ephemeralKeyPair |-> Absent, jwt |-> Absent, userSalt |-> Absent,
   zkLoginAddress |-> Absent, zkProof |-> Absent]

\* the events of ZkLoginEvents; a handler is a function the caller wrote,
\* known by its name and by what it does when it is invoked
EventNames ==
  {"step:changed", "keypair:generated", "jwt:received", "salt:generated",
   "address:generated", "proof:received", "error", "ready"}
Handler(id, does) == [id |-> id, does |-> does]
NoListeners == [e \in EventNames |-> <<>>]

\* EventEmitter.on: push
on(ls, event, h) == [ls EXCEPT ![event] = Append(@, h)]

\* Array.prototype.indexOf, 0 when h is not in the array
RECURSIVE indexOf(_, _, _)
indexOf(arr, h, k) ==
  IF k > Len(arr) THEN 0
  ELSE IF arr[k] = h THEN k
  ELSE indexOf(arr, h, k + 1)

\* Array.prototype.splice(index, 1)
splice(arr, k) == SubSeq(arr, 1, k - 1) \o SubSeq(arr, k + 1, Len(arr))

\* EventEmitter.off: the first registration of h is spliced out
off(ls, event, h) ==
  IF indexOf(ls[event], h, 1) = 0 THEN ls
  ELSE [ls EXCEPT ![event] = splice(@, indexOf(ls[event], h, 1))]

\* the handler h runs: what it does to the listeners, and whether it throws
listener(ls, event, h) ==
  [listeners |-> CASE h.does = "offSelf" -> off(ls, event, h)
                   [] h.does = "onSelf" -> on(ls, event, h)
                   [] OTHER -> ls,
   threw |-> h.does = "throw"]

\* forEach without the try/catch around the listener
RECURSIVE forEachUncaught(_, _, _, _, _)
forEachUncaught(ls, event, k, len, out) ==
  IF k > len THEN [listeners |-> ls, delivered |-> out, threw |-> FALSE]
  ELSE IF k > Len(ls[event]) THEN forEachUncaught(ls, event, k + 1, len, out)
  ELSE LET h == ls[event][k]
           r == listener(ls, event, h)
           out1 == Append(out, [event |-> event, id |-> h.id])
       IN IF r.threw
            THEN [listeners |-> r.listeners, delivered |-> out1, threw |-> TRUE]
            ELSE forEachUncaught(r.listeners, event, k + 1, len, out1)

\* this.listeners[event].forEach(listener => { try { listener() } catch {} }):
\* the indices 1..len of the array as it is when each index is reached, len
\* being its length when forEach was called
RECURSIVE forEach(_, _, _, _, _)
forEach(ls, event, k, len, out) ==
  IF k > len THEN [listeners |-> ls, delivered |-> out, threw |-> FALSE]
  ELSE IF k > Len(ls[event]) THEN forEach(ls, event, k + 1, len, out)
  ELSE LET h == ls[event][k]
           r == listener(ls, event, h)
       IN forEach(r.listeners, event, k + 1, len,
                  Append(out, [event |-> event, id |-> h.id]))

\* EventEmitter.emit
emit(ls, event) == forEach(ls, event, 1, Len(ls[event]), <<>>)

Machine(st, ss, ls, pend) ==
  [st |-> st, ss |-> ss, ls |-> ls, pend |-> pend,
   ev |-> <<>>, calls |-> <<>>, fin |-> <<>>,
   listeners |-> NoListeners, delivered |-> <<>>]

Now ==
  [Machine(state, sessionStorage, localStorage, pending)
     EXCEPT !.listeners = listeners]

Becomes(m) ==
  /\ state' = m.st
  /\ sessionStorage' = m.ss
  /\ localStorage' = m.ls
  /\ pending' = m.pend
  /\ emitted' = m.ev
  /\ calls' = m.calls
  /\ done' = m.fin
  /\ listeners' = m.listeners
  /\ delivered' = m.delivered

SessionSet(m, key, value) == [m EXCEPT !.ss = StoreSet(@, StoragePrefix, key, value)]
SessionGet(m, key) == StoreGet(m.ss, StoragePrefix, key)
SessionRemove(m, key) == [m EXCEPT !.ss = StoreRemove(@, StoragePrefix, key)]
LocalSet(m, key, value) == [m EXCEPT !.ls = StoreSet(@, StoragePrefix, key, value)]
LocalGet(m, key) == StoreGet(m.ls, StoragePrefix, key)
LocalRemove(m, key) == [m EXCEPT !.ls = StoreRemove(@, StoragePrefix, key)]

\* this.emit(name, arg) inside an operation: the notification goes out and
\* the handlers subscribed to it run; sees is what a handler that runs now
\* reads from getState() and from the stores, and the adapter calls that
\* have gone out in this turn
Emit(m, name, arg) ==
  [m EXCEPT !.ev = Append(@, [name |-> name, arg |-> arg,
                              sees |-> [st |-> m.st, ss |-> m.ss, ls |-> m.ls,
                                        calls |-> m.calls]]),
            !.listeners = emit(m.listeners, name).listeners,
            !.delivered = @ \o emit(m.listeners, name).delivered]
\* an adapter call goes out
Call(m, adapter, arg) == [m EXCEPT !.calls = Append(@, [adapter |-> adapter, arg |-> arg])]
\* an invocation suspends at an await
Suspend(m, p) == [m EXCEPT !.pend = @ (+) SetToBag({p})]
Resume(m, p) == [m EXCEPT !.pend = @ (-) SetToBag({p})]
\* an invocation returns (ok) or throws new ZkLoginError(message, code, step)
Return(m, op) ==
  [m EXCEPT !.fin = Append(@, [op |-> op, ok |-> TRUE, code |-> "none",
                               step |-> NoStep])]
Throw(m, op, code, step) ==
  [m EXCEPT !.fin = Append(@, [op |-> op, ok |-> FALSE, code |-> code,
                               step |-> step])]

\* handleError without the `error` notification
handleErrorNoEmit(m, message, step) ==
  [m EXCEPT !.st.error = message,
            !.st.currentStep = IF step # NoStep THEN step ELSE @]

\* ZkLoginClient.handleError
handleError(m, message, step) ==
  Emit([m EXCEPT !.st.error = message,
                 !.st.currentStep = IF step # NoStep THEN step ELSE @],
       "error", message)

\* the step number assigned instead of Math.max
StepAssigned(cur, n) == n
\* Math.max(this.state.currentStep, n) of every success path
StepAfterSuccess(cur, n) == Max(cur, n)

\* `${prefix}: ${error}`; the text of the cause is left out
Message(prefix, cause) == [t |-> "msg", text |-> prefix]
\* what step:changed carries, and an address as an adapter call carries it
StepArg(n) == [t |-> "step", step |-> n]
AddressArg(a) == [t |-> "address", address |-> a]
P(op, pc, addr) == [op |-> op, pc |-> pc, addr |-> addr]

-----------------------------------------------------------------------------
(* Step 6: getZkProof *)

getZkProofFail(m, cause) ==
  Throw(handleError(m, Message("Failed to get ZK proof", cause), 6),
        "getZkProof", "ZK_PROOF_FAILED", 6)

\* the call, up to the await of requestZkProof
getZkProof(m) ==
  IF ~Present(m.st.ephemeralKeyPair)
    THEN getZkProofFail(m, "Ephemeral key pair not available")
  ELSE IF ~Present(m.st.jwt) THEN getZkProofFail(m, "JWT not available")
  ELSE IF ~Present(m.st.userSalt) THEN getZkProofFail(m, "User salt not available")
  ELSE Suspend(Call(m, "prover",
                    [jwt |-> m.st.jwt.token,
                     keyPair |-> m.st.ephemeralKeyPair.keyPair,
                     maxEpoch |-> m.st.ephemeralKeyPair.maxEpoch,
                     jwtRandomness |-> m.st.ephemeralKeyPair.randomness,
                     salt |-> m.st.userSalt.salt]),
               P("getZkProof", "prover", Absent))

\* getZkProof's success path without this.state.isReady = true
getZkProofOkNotReady(m, zkProof) ==
  LET m1 == SessionSet(m, ZK_PROOF, JSONstringify(zkProof))
      m2 == [m1 EXCEPT !.st.zkProof = zkProof,
                       !.st.currentStep = StepAfterSuccess(@, 6)]
      m3 == Emit(Emit(Emit(m2, "proof:received", zkProof),
                      "step:changed", StepArg(m2.st.currentStep)), "ready", Absent)
  IN Return(m3, "getZkProof")

\* the proof service answered with zkProof
getZkProofOk(m, zkProof) ==
  LET m1 == SessionSet(m, ZK_PROOF, JSONstringify(zkProof))
      m2 == [m1 EXCEPT !.st.zkProof = zkProof,
                       !.st.currentStep = StepAfterSuccess(@, 6),
                       !.st.isReady = TRUE]
      m3 == Emit(Emit(Emit(m2, "proof:received", zkProof),
                      "step:changed", StepArg(m2.st.currentStep)), "ready", Absent)
  IN Return(m3, "getZkProof")

-----------------------------------------------------------------------------
(* Step 5: generateAddress *)

generateAddressFail(m, cause) ==
  Throw(handleError(m, Message("Failed to generate address", cause), 5),
        "generateAddress", "ADDRESS_GENERATION_FAILED", 5)

\* the call, up to the await of getAddressBalance
generateAddress(m) ==
  IF ~Present(m.st.jwt) THEN generateAddressFail(m, "JWT not available")
  ELSE IF ~Present(m.st.userSalt) THEN generateAddressFail(m, "User salt not generated")
  ELSE IF ~CanDeriveAddress(m.st.jwt.token, m.st.userSalt.salt)
    THEN generateAddressFail(m, "Failed to generate zkLogin address")
  ELSE LET addressState == generateZkLoginAddress(m.st.jwt.token, m.st.userSalt.salt)
       IN Suspend(Call(m, "getBalance", AddressArg(addressState.address)),
                  P("generateAddress", "balance", addressState))

\* generateAddress's success path behind a guard that keeps the address of
\* the invocation that completed first
generateAddressOkFirstWins(m, p, balance) ==
  LET addressState ==
        IF Present(m.st.zkLoginAddress) THEN m.st.zkLoginAddress
        ELSE [p.addr EXCEPT !.balance = Str(balance)]
      m1 == LocalSet(m, ZKLOGIN_ADDRESS, JSONstringify(addressState))
      m2 == [m1 EXCEPT !.st.zkLoginAddress = addressState,
                       !.st.currentStep = StepAfterSuccess(@, 5)]
      m3 == Emit(Emit(m2, "address:generated", [p.addr EXCEPT !.balance = Str(balance)]),
                 "step:changed", StepArg(m2.st.currentStep))
  IN Return(getZkProof(m3), "generateAddress")

\* generateAddress's success path with the notifications emitted before the
\* record is stored and the state is updated
generateAddressOkNotifyFirst(m, p, balance) ==
  LET addressState == [p.addr EXCEPT !.balance = Str(balance)]
      m1 == Emit(Emit(m, "address:generated", addressState),
                 "step:changed", StepArg(StepAfterSuccess(m.st.currentStep, 5)))
      m2 == LocalSet(m1, ZKLOGIN_ADDRESS, JSONstringify(addressState))
      m3 == [m2 EXCEPT !.st.zkLoginAddress = addressState,
                       !.st.currentStep = StepAfterSuccess(@, 5)]
  IN Return(getZkProof(m3), "generateAddress")

\* getAddressBalance answered (a failed lookup answers "0")
generateAddressOk(m, p, balance) ==
  LET addressState == [p.addr EXCEPT !.balance = Str(balance)]
      m1 == LocalSet(m, ZKLOGIN_ADDRESS, JSONstringify(addressState))
      m2 == [m1 EXCEPT !.st.zkLoginAddress = addressState,
                       !.st.currentStep = StepAfterSuccess(@, 5)]
      m3 == Emit(Emit(m2, "address:generated", addressState),
                 "step:changed", StepArg(m2.st.currentStep))
  IN Return(getZkProof(m3), "generateAddress")

-----------------------------------------------------------------------------
(* Step 4: generateSalt *)

generateSaltFail(m, cause) ==
  Throw(handleError(m, Message("Failed to generate salt", cause), 4),
        "generateSalt", "SALT_GENERATION_FAILED", 4)

\* the call, up to the await of generateUserSalt: no check of state.jwt
generateSalt(m) ==
  LET jwtToken == SessionGet(m, JWT_TOKEN)
  IN Suspend(Call(m, "salt", jwtToken), P("generateSalt", "salt", Absent))

\* generateSalt's success path without the call of generateAddress
generateSaltOkNoChain(m, salt) ==
  LET saltState == [t |-> "salt", salt |-> salt]
      m1 == LocalSet(m, USER_SALT, JSONstringify(saltState))
      m2 == [m1 EXCEPT !.st.userSalt = saltState,
                       !.st.currentStep = StepAfterSuccess(@, 4)]
      m3 == Emit(Emit(m2, "salt:generated", saltState),
                 "step:changed", StepArg(m2.st.currentStep))
  IN Return(m3, "generateSalt")

\* the salt service answered with salt
generateSaltOk(m, salt) ==
  LET saltState == [t |-> "salt", salt |-> salt]
      m1 == LocalSet(m, USER_SALT, JSONstringify(saltState))
      m2 == [m1 EXCEPT !.st.userSalt = saltState,
                       !.st.currentStep = StepAfterSuccess(@, 4)]
      m3 == Emit(Emit(m2, "salt:generated", saltState),
                 "step:changed", StepArg(m2.st.currentStep))
  IN Return(generateAddress(m3), "generateSalt")

-----------------------------------------------------------------------------
(* Step 3: handleOAuthCallback *)

\* a || b
Or(a, b) == IF Truthy(a) THEN a ELSE b

\* parseOAuthCallback on a URL given by its fragment and query parameters
parseOAuthCallback(url) ==
  [id_token |-> Or(Or(url.hash.id_token, url.query.id_token), Absent),
   error |-> Or(Or(url.hash.error, url.query.error), Absent)]

handleOAuthCallbackFail(m, cause) ==
  Throw(handleError(m, Message("Failed to handle OAuth callback", cause), 3),
        "handleOAuthCallback", "OAUTH_CALLBACK_FAILED", 3)

\* a callback that stores the token it was given before it validates it
handleOAuthCallbackStoreFirst(m, url) ==
  LET params == parseOAuthCallback(url)
      m0 == IF Present(params.id_token) THEN SessionSet(m, JWT_TOKEN, params.id_token) ELSE m
  IN IF Truthy(params.error) THEN handleOAuthCallbackFail(m0, "OAuth error")
     ELSE IF ~Truthy(params.id_token)
       THEN handleOAuthCallbackFail(m0, "No id_token received from OAuth provider")
     ELSE IF ~Decodable(params.id_token.v)
       THEN handleOAuthCallbackFail(m0, "Invalid JWT token")
     ELSE
       LET jwtState == decodeJwtToken(params.id_token.v)
           m2 == [m0 EXCEPT !.st.jwt = jwtState,
                            !.st.currentStep = StepAfterSuccess(@, 3)]
           m3 == Emit(Emit(m2, "jwt:received", jwtState),
                      "step:changed", StepArg(m2.st.currentStep))
       IN Return(generateSalt(m3), "handleOAuthCallback")

handleOAuthCallback(m, url) ==
  LET params == parseOAuthCallback(url)
  IN IF Truthy(params.error) THEN handleOAuthCallbackFail(m, "OAuth error")
     ELSE IF ~Truthy(params.id_token)
       THEN handleOAuthCallbackFail(m, "No id_token received from OAuth provider")
     ELSE IF ~Decodable(params.id_token.v)
       THEN handleOAuthCallbackFail(m, "Invalid JWT token")
     ELSE
       LET jwtState == decodeJwtToken(params.id_token.v)
           m1 == SessionSet(m, JWT_TOKEN, params.id_token)
           m2 == [m1 EXCEPT !.st.jwt = jwtState,
                            !.st.currentStep = StepAfterSuccess(@, 3)]
           m3 == Emit(Emit(m2, "jwt:received", jwtState),
                      "step:changed", StepArg(m2.st.currentStep))
       IN Return(generateSalt(m3), "handleOAuthCallback")

-----------------------------------------------------------------------------
(* Step 2: redirectToOAuth *)

\* OAUTH_PROVIDERS[provider].authUrl
authUrl(provider) == IF provider = "custom" THEN "" ELSE provider

redirectToOAuthFail(m, cause) ==
  Throw(handleError(m, Message("Failed to redirect to OAuth", cause), 2),
        "redirectToOAuth", "OAUTH_REDIRECT_FAILED", 2)

redirectToOAuth(m, provider) ==
  IF ~Present(m.st.ephemeralKeyPair)
    THEN redirectToOAuthFail(m, "Ephemeral key pair not generated yet")
  ELSE IF authUrl(provider) = "" THEN redirectToOAuthFail(m, "Invalid provider")
  ELSE Return(Call(m, "navigate",
                   [authUrl |-> authUrl(provider),
                    nonce |-> m.st.ephemeralKeyPair.nonce]),
              "redirectToOAuth")

-----------------------------------------------------------------------------
(* Step 1: generateEphemeralKeyPair *)

generateEphemeralKeyPairFail(m, cause) ==
  Throw(handleError(m, Message("Failed to generate ephemeral key pair", cause), 1),
        "generateEphemeralKeyPair", "KEYPAIR_GENERATION_FAILED", 1)

\* the call, up to the await of getCurrentEpoch
generateEphemeralKeyPairCall(m) ==
  Suspend(Call(m, "getCurrentEpoch", Absent),
          P("generateEphemeralKeyPair", "epoch", Absent))

\* step 1's success path that keeps a private-key record that is already stored
generateEphemeralKeyPairOkKeepKey(m, currentEpoch, k, r) ==
  LET maxEpoch == calculateMaxEpoch(currentEpoch)
      keyPairState == generateEphemeralKeyPair(maxEpoch, k, r)
      m0 == IF Present(SessionGet(m, EPHEMERAL_KEYPAIR)) THEN m
            ELSE SessionSet(m, EPHEMERAL_KEYPAIR, Str(k))
      m1 == SessionSet(SessionSet(m0, MAX_EPOCH, Str(toString(maxEpoch))),
                       RANDOMNESS, Str(r))
      m2 == [m1 EXCEPT !.st.ephemeralKeyPair = keyPairState,
                       !.st.currentStep = StepAfterSuccess(@, 1)]
      m3 == Emit(Emit(m2, "keypair:generated", keyPairState),
                 "step:changed", StepArg(m2.st.currentStep))
  IN Return(m3, "generateEphemeralKeyPair")

\* the chain answered currentEpoch; k and r are the two random draws
generateEphemeralKeyPairOk(m, currentEpoch, k, r) ==
  LET maxEpoch == calculateMaxEpoch(currentEpoch)
      keyPairState == generateEphemeralKeyPair(maxEpoch, k, r)
      m1 == SessionSet(SessionSet(SessionSet(m,
              EPHEMERAL_KEYPAIR, Str(k)),
              MAX_EPOCH, Str(toString(maxEpoch))),
              RANDOMNESS, Str(r))
      m2 == [m1 EXCEPT !.st.ephemeralKeyPair = keyPairState,
                       !.st.currentStep = StepAfterSuccess(@, 1)]
      m3 == Emit(Emit(m2, "keypair:generated", keyPairState),
                 "step:changed", StepArg(m2.st.currentStep))
  IN Return(m3, "generateEphemeralKeyPair")

-----------------------------------------------------------------------------
(* executeTransaction *)

executeTransactionFail(m, cause) ==
  Throw(handleError(m, Message("Failed to execute transaction", cause), 7),
        "executeTransaction", "TRANSACTION_EXECUTION_FAILED", 7)

\* the call, up to the await of txb.sign
executeTransaction(m) ==
  IF ~m.st.isReady THEN executeTransactionFail(m, "ZkLogin not ready")
  ELSE IF \/ ~Present(m.st.ephemeralKeyPair)
          \/ ~Present(m.st.zkProof)
          \/ ~Present(m.st.zkLoginAddress)
    THEN executeTransactionFail(m, "Missing required state for transaction execution")
  ELSE Suspend(Call(m, "sign", AddressArg(m.st.zkLoginAddress.address)),
               P("executeTransaction", "sign", m.st.zkLoginAddress))

\* txb.sign answered: up to the await of executeTransactionBlock
executeTransactionSigned(m, p) ==
  Suspend(Call(m, "executeTransactionBlock", AddressArg(p.addr.address)),
          P("executeTransaction", "execute", p.addr))

\* executeTransactionBlock answered
executeTransactionOk(m) == Return(m, "executeTransaction")

-----------------------------------------------------------------------------
(* requestTestTokens *)

requestTestTokensFail(m, cause) ==
  Throw(handleError(m, Message("Failed to request test tokens", cause), NoStep),
        "requestTestTokens", "FAUCET_REQUEST_FAILED", NoStep)

\* the call, up to the await of requestFaucet
requestTestTokens(m) ==
  IF ~Present(m.st.zkLoginAddress)
    THEN requestTestTokensFail(m, "ZkLogin address not generated")
  ELSE Suspend(Call(m, "faucet", AddressArg(m.st.zkLoginAddress.address)),
               P("requestTestTokens", "faucet", Absent))

\* the faucet answered: this.state.zkLoginAddress is read again
requestTestTokensFunded(m) ==
  IF ~Present(m.st.zkLoginAddress) THEN requestTestTokensFail(m, "TypeError")
  ELSE Suspend(Call(m, "getBalance", AddressArg(m.st.zkLoginAddress.address)),
               P("requestTestTokens", "balance", Absent))

\* getAddressBalance answered: the balance is written into the state only
requestTestTokensOk(m, balance) ==
  IF ~Present(m.st.zkLoginAddress) THEN requestTestTokensFail(m, "TypeError")
  ELSE Return([m EXCEPT !.st.zkLoginAddress.balance = Str(balance)],
              "requestTestTokens")

-----------------------------------------------------------------------------
(* reset, restoreState and the constructor *)

\* a reset that clears the two stores and leaves the state as it is
resetStoresOnly(m) ==
  LET m1 == [m EXCEPT !.ls = StoreClear(@, StoragePrefix),
                      !.ss = StoreClear(@, StoragePrefix)]
  IN Return(generateEphemeralKeyPairCall(m1), "reset")

reset(m) ==
  LET m1 == [m EXCEPT !.ls = StoreClear(@, StoragePrefix),
                      !.ss = StoreClear(@, StoragePrefix),
                      !.st = InitialState]
  IN Return(generateEphemeralKeyPairCall(m1), "reset")

restoreJwt(m) ==
  LET jwtToken == SessionGet(m, JWT_TOKEN)
  IN IF ~Truthy(jwtToken) THEN m
     ELSE IF jwtToken.t = "str" /\ Decodable(jwtToken.v)
       THEN [m EXCEPT !.st.jwt = decodeJwtToken(jwtToken.v),
                      !.st.currentStep = StepAfterSuccess(@, 3)]
     ELSE SessionRemove(m, JWT_TOKEN)

restoreSalt(m) ==
  LET userSaltStr == LocalGet(m, USER_SALT)
  IN IF ~Truthy(userSaltStr) THEN m
     ELSE IF IsJSON(userSaltStr)
       THEN [m EXCEPT !.st.userSalt = JSONparse(userSaltStr),
                      !.st.currentStep = StepAfterSuccess(@, 4)]
     ELSE LocalRemove(m, USER_SALT)

restoreAddress(m) ==
  LET addressStr == LocalGet(m, ZKLOGIN_ADDRESS)
  IN IF ~Truthy(addressStr) THEN m
     ELSE IF IsJSON(addressStr)
       THEN [m EXCEPT !.st.zkLoginAddress = JSONparse(addressStr),
                      !.st.currentStep = StepAfterSuccess(@, 5)]
     ELSE LocalRemove(m, ZKLOGIN_ADDRESS)

restoreProof(m) ==
  LET zkProofStr == SessionGet(m, ZK_PROOF)
  IN IF ~Truthy(zkProofStr) THEN m
     ELSE IF IsJSON(zkProofStr)
       THEN [m EXCEPT !.st.zkProof = JSONparse(zkProofStr),
                      !.st.currentStep = StepAfterSuccess(@, 6),
                      !.st.isReady = TRUE]
     ELSE SessionRemove(m, ZK_PROOF)

\* restoreState without the call of generateEphemeralKeyPair
restoreStateNoRegenerate(m) ==
  LET privateKey == SessionGet(m, EPHEMERAL_KEYPAIR)
      maxEpochStr == SessionGet(m, MAX_EPOCH)
      randomness == SessionGet(m, RANDOMNESS)
      rest(x) == restoreProof(restoreAddress(restoreSalt(restoreJwt(x))))
  IN IF Truthy(privateKey) /\ Truthy(maxEpochStr) /\ Truthy(randomness)
       THEN IF privateKey.t # "str"
              THEN m   \* Ed25519Keypair.fromSecretKey throws: the outer catch
              ELSE rest([m EXCEPT
                     !.st.ephemeralKeyPair =
                        [t |-> "kp", keyPair |-> privateKey.v,
                         maxEpoch |-> IF maxEpochStr.t = "str"
                                        THEN parseInt(maxEpochStr.v) ELSE NaN,
                         randomness |-> IF randomness.t = "str"
                                          THEN randomness.v ELSE "corrupt",
                         nonce |-> <<>>],
                     !.st.currentStep = StepAfterSuccess(@, 1)])
       ELSE rest(m)

restoreState(m) ==
  LET privateKey == SessionGet(m, EPHEMERAL_KEYPAIR)
      maxEpochStr == SessionGet(m, MAX_EPOCH)
      randomness == SessionGet(m, RANDOMNESS)
      rest(x) == restoreProof(restoreAddress(restoreSalt(restoreJwt(x))))
  IN IF Truthy(privateKey) /\ Truthy(maxEpochStr) /\ Truthy(randomness)
       THEN IF privateKey.t # "str"
              THEN m   \* Ed25519Keypair.fromSecretKey throws: the outer catch
              ELSE rest([m EXCEPT
                     !.st.ephemeralKeyPair =
                        [t |-> "kp", keyPair |-> privateKey.v,
                         maxEpoch |-> IF maxEpochStr.t = "str"
                                        THEN parseInt(maxEpochStr.v) ELSE NaN,
                         randomness |-> IF randomness.t = "str"
                                          THEN randomness.v ELSE "corrupt",
                         nonce |-> <<>>],
                     !.st.currentStep = StepAfterSuccess(@, 1)])
       ELSE rest(generateEphemeralKeyPairCall(m))

\* new ZkLoginClient(config) over the two browser stores, config being valid:
\* restoreState catches whatever is thrown inside it, so the constructor returns
constructor(ss, ls) ==
  Return(restoreState(Machine(InitialState, ss, ls, EmptyBag)), "constructor")

-----------------------------------------------------------------------------
(* Turns started by the caller *)

Room == BagCardinality(pending) < MaxPending

UrlTokens == {Absent, Str("")} \cup {Str(tok) : tok \in Tokens}
UrlErrors == {Absent, Str("access_denied")}
Urls ==
  {[hash |-> [id_token |-> ht, error |-> he],
    query |-> [id_token |-> qt, error |-> qe]] :
     ht \in UrlTokens, qt \in {Absent, Str(TokOk)},
     he \in UrlErrors, qe \in {Absent}}

GenerateEphemeralKeyPair == Room /\ Becomes(generateEphemeralKeyPairCall(Now))
RedirectToOAuth == \E provider \in Providers : Becomes(redirectToOAuth(Now, provider))
HandleOAuthCallback == Room /\ \E url \in Urls : Becomes(handleOAuthCallback(Now, url))
GenerateSalt == Room /\ Becomes(generateSalt(Now))
GenerateAddress == Room /\ Becomes(generateAddress(Now))
GetZkProof == Room /\ Becomes(getZkProof(Now))
ExecuteTransaction == Room /\ Becomes(executeTransaction(Now))
RequestTestTokens == Room /\ Becomes(requestTestTokens(Now))
Reset == Room /\ Becomes(reset(Now))

\* the page is loaded again (same tab: sessionStorage survives; a new
\* session: it is empty) and a new client is constructed
Reload ==
  \E keep \in BOOLEAN :
    Becomes(constructor(IF keep THEN sessionStorage ELSE EmptyStore, localStorage))

-----------------------------------------------------------------------------
(* Turns started by an adapter's answer *)

Suspended(op, pc) == {p \in BagToSet(pending) : p.op = op /\ p.pc = pc}

EpochAnswers ==
  \E p \in Suspended("generateEphemeralKeyPair", "epoch") :
    \/ \E e \in CurrentEpochs, k \in Keys, r \in Rands :
         Becomes(generateEphemeralKeyPairOk(Resume(Now, p), e, k, r))
    \/ Becomes(generateEphemeralKeyPairFail(Resume(Now, p), "adapter"))

SaltAnswers ==
  \E p \in Suspended("generateSalt", "salt") :
    \/ \E salt \in Salts : Becomes(generateSaltOk(Resume(Now, p), salt))
    \/ Becomes(generateSaltFail(Resume(Now, p), "adapter"))

BalanceAnswers ==
  \E p \in Suspended("generateAddress", "balance") :
    \E balance \in Balances : Becomes(generateAddressOk(Resume(Now, p), p, balance))

ProofAnswers ==
  \E p \in Suspended("getZkProof", "prover") :
    \/ \E zkProof \in Proofs : Becomes(getZkProofOk(Resume(Now, p), zkProof))
    \/ Becomes(getZkProofFail(Resume(Now, p), "adapter"))

SignAnswers ==
  \E p \in Suspended("executeTransaction", "sign") :
    \/ Becomes(executeTransactionSigned(Resume(Now, p), p))
    \/ Becomes(executeTransactionFail(Resume(Now, p), "adapter"))

SubmitAnswers ==
  \E p \in Suspended("executeTransaction", "execute") :
    \/ Becomes(executeTransactionOk(Resume(Now, p)))
    \/ Becomes(executeTransactionFail(Resume(Now, p), "adapter"))

FaucetAnswers ==
  \E p \in Suspended("requestTestTokens", "faucet") :
    \/ Becomes(requestTestTokensFunded(Resume(Now, p)))
    \/ Becomes(requestTestTokensFail(Resume(Now, p), "adapter"))

FaucetBalanceAnswers ==
  \E p \in Suspended("requestTestTokens", "balance") :
    \E balance \in Balances : Becomes(requestTestTokensOk(Resume(Now, p), balance))

-----------------------------------------------------------------------------

Init ==
  LET m == constructor(EmptyStore, ForeignStore)
  IN /\ state = m.st
     /\ sessionStorage = m.ss
     /\ localStorage = m.ls
     /\ pending = m.pend
     /\ emitted = m.ev
     /\ calls = m.calls
     /\ done = m.fin
     /\ listeners = m.listeners
     /\ delivered = m.delivered

Next ==
  \/ GenerateEphemeralKeyPair
  \/ RedirectToOAuth
  \/ HandleOAuthCallback
  \/ GenerateSalt
  \/ GenerateAddress
  \/ GetZkProof
  \/ ExecuteTransaction
  \/ RequestTestTokens
  \/ Reset
  \/ Reload
  \/ EpochAnswers
  \/ SaltAnswers
  \/ BalanceAnswers
  \/ ProofAnswers
  \/ SignAnswers
  \/ SubmitAnswers
  \/ FaucetAnswers
  \/ FaucetBalanceAnswers

Spec == Init /\ [][Next]_vars

-----------------------------------------------------------------------------
(* What a turn did, read from done, emitted and calls *)

Threw(d) == \E i \in DOMAIN d : ~d[i].ok
OnlyThrew(d) == d # <<>> /\ \A i \in DOMAIN d : ~d[i].ok
ThrewIn(d, op) == \E i \in DOMAIN d : d[i].op = op /\ ~d[i].ok
Succeeded(d, op) == \E i \in DOMAIN d : d[i].op = op /\ d[i].ok
EmittedIn(ev, name) == \E i \in DOMAIN ev : ev[i].name = name
CalledIn(cs, adapter) == \E i \in DOMAIN cs : cs[i].adapter = adapter

StepOps ==
  {"generateEphemeralKeyPair", "handleOAuthCallback", "generateSalt",
   "generateAddress", "getZkProof"}
StepNo(op) ==
  CASE op = "generateEphemeralKeyPair" -> 1
    [] op = "handleOAuthCallback" -> 3
    [] op = "generateSalt" -> 4
    [] op = "generateAddress" -> 5
    [] op = "getZkProof" -> 6

\* the highest step whose sub-record is present in state
HighestRecord ==
  IF Present(state.zkProof) THEN 6
  ELSE IF Present(state.zkLoginAddress) THEN 5
  ELSE IF Present(state.userSalt) THEN 4
  ELSE IF Present(state.jwt) THEN 3
  ELSE IF Present(state.ephemeralKeyPair) THEN 1
  ELSE 0

-----------------------------------------------------------------------------
(* Claims *)

\* C1: a turn in which an operation fails (and none succeeds) leaves
\* currentStep as it was before the turn.
C1_FailureKeepsCurrentStep ==
  [][OnlyThrew(done') => state'.currentStep = state.currentStep]_vars

\* C2: currentStep never exceeds the highest step whose sub-record is
\* present in state.
C2_StepWithinRecords == state.currentStep <= HighestRecord

\* C3: isReady implies that proof, address, salt, token and key material are
\* all present in state.
C3_ReadyImpliesRecords ==
  state.isReady =>
    /\ Present(state.zkProof)
    /\ Present(state.zkLoginAddress)
    /\ Present(state.userSalt)
    /\ Present(state.jwt)
    /\ Present(state.ephemeralKeyPair)

\* C4: step 4 invoked without a token, step 5 without token or salt, step 6
\* without key material, token or salt throws and leaves currentStep unchanged.
C4_PreconditionFailureKeepsStep ==
  [][/\ (GenerateSalt /\ ~Present(state.jwt)) =>
          ThrewIn(done', "generateSalt") /\ state'.currentStep = state.currentStep
     /\ (GenerateAddress /\ (~Present(state.jwt) \/ ~Present(state.userSalt))) =>
          ThrewIn(done', "generateAddress") /\ state'.currentStep = state.currentStep
     /\ (GetZkProof /\ (\/ ~Present(state.ephemeralKeyPair)
                        \/ ~Present(state.jwt)
                        \/ ~Present(state.userSalt))) =>
          ThrewIn(done', "getZkProof") /\ state'.currentStep = state.currentStep
    ]_vars

\* C5: an operation invoked with its precondition unmet throws without
\* having issued any adapter call.
C5_PreconditionFailureBeforeCalls ==
  [][/\ (RedirectToOAuth /\ ~Present(state.ephemeralKeyPair)) =>
          ThrewIn(done', "redirectToOAuth") /\ calls' = <<>>
     /\ (GenerateSalt /\ ~Present(state.jwt)) =>
          ThrewIn(done', "generateSalt") /\ calls' = <<>>
     /\ (GenerateAddress /\ (~Present(state.jwt) \/ ~Present(state.userSalt))) =>
          ThrewIn(done', "generateAddress") /\ calls' = <<>>
     /\ (GetZkProof /\ (\/ ~Present(state.ephemeralKeyPair)
                        \/ ~Present(state.jwt)
                        \/ ~Present(state.userSalt))) =>
          ThrewIn(done', "getZkProof") /\ calls' = <<>>
     /\ (ExecuteTransaction /\ ~state.isReady) =>
          ThrewIn(done', "executeTransaction") /\ calls' = <<>>
     /\ (RequestTestTokens /\ ~Present(state.zkLoginAddress)) =>
          ThrewIn(done', "requestTestTokens") /\ calls' = <<>>
    ]_vars

\* C6: in a run without any failure since construction or reset (state.error
\* is set by every failure and cleared by nothing else), the turn in which
\* step 6 succeeds ends with currentStep = 6 and isReady = true.
C6_SuccessfulRunEndsReady ==
  (Succeeded(done, "getZkProof") /\ ~Present(state.error)) =>
     state.currentStep = 6 /\ state.isReady

\* steps 1, 3, 4, 5 and 6 have all succeeded, step 6 last, and nothing failed
C6_Witness ==
  /\ Succeeded(done, "getZkProof")
  /\ ~Present(state.error)
  /\ Present(state.ephemeralKeyPair) /\ state.ephemeralKeyPair.nonce # <<>>
  /\ Present(state.jwt)
  /\ Present(state.userSalt)
  /\ Present(state.zkLoginAddress)
  /\ state.currentStep = 6

C9_StepValues == state.currentStep \in {0, 1, 3, 4, 5, 6}

\* C10: when reset() returns, no record under the configured prefix is left
\* in either store, the state is the initial one (currentStep 0, isReady
\* false, no sub-record, no error) and exactly one step-1 invocation, with one
\* current-epoch request, has been started.
C10_ResetClearsAndRestarts ==
  [][Succeeded(done', "reset") =>
       /\ \A k \in DOMAIN localStorage' : ~startsWith(k, StoragePrefix)
       /\ \A k \in DOMAIN sessionStorage' : ~startsWith(k, StoragePrefix)
       /\ state' = InitialState
       /\ Len(calls') = 1 /\ calls'[1].adapter = "getCurrentEpoch"
       /\ pending' = pending (+) SetToBag({P("generateEphemeralKeyPair", "epoch", Absent)})
    ]_vars

\* reset() returned while an invocation started before it is still suspended
C10_Witness ==
  /\ Succeeded(done, "reset")
  /\ \E p \in BagToSet(pending) : p.op = "getZkProof"

-----------------------------------------------------------------------------
(* The auto-chain on its own: key material is present, the caller invokes   *)
(* handleOAuthCallback once and nothing else, and every adapter answers     *)
(* successfully.                                                            *)

ChainEpochs == {0, 1}
ChainSalts == {"123", "abc"}
ChainBalances == {"0", "7"}

\* localStorage of a user who completed steps 4 and 5 in an earlier session
ReturningStore ==
  StoreSet(StoreSet(ForeignStore,
    StoragePrefix, USER_SALT, JSONstringify([t |-> "salt", salt |-> "123"])),
    StoragePrefix, ZKLOGIN_ADDRESS,
    JSONstringify([generateZkLoginAddress(TokOk, "123") EXCEPT !.balance = Str("0")]))

\* the client after construction and a successful step 1, and, if restored,
\* after the page was then loaded again in the same tab
ChainStart(ls, currentEpoch, k, r, restored) ==
  LET m0 == constructor(EmptyStore, ls)
      m1 == generateEphemeralKeyPairOk(
              Resume(m0, P("generateEphemeralKeyPair", "epoch", Absent)),
              currentEpoch, k, r)
  IN IF restored THEN constructor(m1.ss, m1.ls) ELSE m1

InitChain ==
  \E ls \in {ForeignStore, ReturningStore}, e \in ChainEpochs,
     k \in Keys, r \in Rands, restored \in BOOLEAN :
    LET m == ChainStart(ls, e, k, r, restored)
    IN /\ state = m.st
       /\ sessionStorage = m.ss
       /\ localStorage = m.ls
       /\ pending = m.pend
       /\ emitted = <<>>
       /\ calls = <<>>
       /\ done = <<>>
       /\ listeners = NoListeners
       /\ delivered = <<>>

ChainCallback ==
  /\ done = <<>>
  /\ \E url \in Urls : Becomes(handleOAuthCallback(Now, url))

ChainSaltAnswer ==
  \E p \in Suspended("generateSalt", "salt") :
    \E salt \in ChainSalts : Becomes(generateSaltOk(Resume(Now, p), salt))

ChainBalanceAnswer ==
  \E p \in Suspended("generateAddress", "balance") :
    \E balance \in ChainBalances :
      Becomes(generateAddressOk(Resume(Now, p), p, balance))

ChainProofAnswer ==
  \E p \in Suspended("getZkProof", "prover") :
    \E zkProof \in Proofs : Becomes(getZkProofOk(Resume(Now, p), zkProof))

NextChain ==
  \/ ChainCallback
  \/ ChainSaltAnswer
  \/ ChainBalanceAnswer
  \/ ChainProofAnswer

\* every adapter call that is out is eventually answered
ChainSpec ==
  /\ InitChain
  /\ [][NextChain]_vars
  /\ WF_vars(ChainSaltAnswer)
  /\ WF_vars(ChainBalanceAnswer)
  /\ WF_vars(ChainProofAnswer)

ChainReady ==
  /\ state.currentStep = 6
  /\ state.isReady
  /\ EmittedIn(emitted, "ready")

\* the address-derivation library cannot derive an address from the token
\* and the salt that arrived
DerivationFails ==
  /\ Present(state.jwt)
  /\ Present(state.userSalt)
  /\ ~CanDeriveAddress(state.jwt.token, state.userSalt.salt)

\* C7 as claimed: once handleOAuthCallback succeeded with a decodable token,
\* the chain eventually reaches currentStep = 6, isReady and emits `ready`.
C7_ChainReachesReady ==
  Succeeded(done, "handleOAuthCallback") ~> ChainReady

\* C7 amended: once handleOAuthCallback succeeded, the chain eventually
\* reaches currentStep = 6, isReady and emits `ready`, unless no address can
\* be derived from the token and the answered salt (the token lacks sub or
\* aud, or the salt is not numeric).
C7_ChainReachesReadyIfDerivable ==
  Succeeded(done, "handleOAuthCallback") ~> (ChainReady \/ DerivationFails)

\* the chain ran from the callback to `ready` with nothing left suspended
C7_Witness ==
  /\ ChainReady
  /\ Succeeded(done, "getZkProof")
  /\ pending = EmptyBag
  /\ ~Present(state.error)

-----------------------------------------------------------------------------
(* Construction over stores found in any condition: every persisted record  *)
(* is absent, well-formed, or a string the code cannot use.  The client is  *)
(* constructed over them, the step 1 it may start is answered, and the page *)
(* may be loaded again over the stores the previous client left.            *)

StoredKeys == {Absent, Str("k1"), Corrupt}
StoredEpochs == {Absent, Str(toString(calculateMaxEpoch(0))), Corrupt}
StoredRands == {Absent, Str("r1"), Str("")}
StoredTokens == {Absent, Str(TokOk), Str(TokBad)}
StoredSalts == {Absent, JSONstringify([t |-> "salt", salt |-> "123"]), Corrupt}
StoredAddresses ==
  {Absent,
   JSONstringify([generateZkLoginAddress(TokOk, "123") EXCEPT !.balance = Str("0")]),
   Corrupt}
StoredProofs == {Absent} \cup {JSONstringify(zkProof) : zkProof \in Proofs} \cup {Corrupt}

\* the browser store with value under the prefixed key, or without the key
Put(store, key, value) ==
  IF Present(value) THEN StoreSet(store, StoragePrefix, key, value) ELSE store

InitRestore ==
  \E pk \in StoredKeys, me \in StoredEpochs, rn \in StoredRands,
     tok \in StoredTokens, sa \in StoredSalts, ad \in StoredAddresses,
     pr \in StoredProofs :
    /\ state = InitialState
    /\ sessionStorage =
         Put(Put(Put(Put(Put(EmptyStore, EPHEMERAL_KEYPAIR, pk), MAX_EPOCH, me),
                     RANDOMNESS, rn), JWT_TOKEN, tok), ZK_PROOF, pr)
    /\ localStorage = Put(Put(ForeignStore, USER_SALT, sa), ZKLOGIN_ADDRESS, ad)
    /\ pending = EmptyBag
    /\ emitted = <<>>
    /\ calls = <<>>
    /\ done = <<>>
    /\ listeners = NoListeners
    /\ delivered = <<>>

\* new ZkLoginClient(config) over the two stores as they are
Construct == Becomes(constructor(sessionStorage, localStorage))

NextRestore ==
  \/ Construct
  \/ EpochAnswers

RestoreSpec == InitRestore /\ [][NextRestore]_vars

\* the persisted records as restoreState reads them
StoredKey == StoreGet(sessionStorage, StoragePrefix, EPHEMERAL_KEYPAIR)
StoredEpoch == StoreGet(sessionStorage, StoragePrefix, MAX_EPOCH)
StoredRand == StoreGet(sessionStorage, StoragePrefix, RANDOMNESS)
StoredToken == StoreGet(sessionStorage, StoragePrefix, JWT_TOKEN)
StoredProof == StoreGet(sessionStorage, StoragePrefix, ZK_PROOF)
StoredSalt == StoreGet(localStorage, StoragePrefix, USER_SALT)
StoredAddress == StoreGet(localStorage, StoragePrefix, ZKLOGIN_ADDRESS)

\* the three key-material records are all there
KeyMaterialStored == Truthy(StoredKey) /\ Truthy(StoredEpoch) /\ Truthy(StoredRand)

\* C11: when the client is ready and a new client is constructed over the
\* same two stores, the new client has currentStep = 6, isReady, all five
\* sub-records with the persisted maxEpoch, randomness, token, salt and
\* address, and construction issued no adapter call and started no step 1.
C11_RestartSurvival ==
  [][(state.isReady /\ Construct) =>
       /\ state'.currentStep = 6
       /\ state'.isReady
       /\ Present(state'.ephemeralKeyPair)
       /\ Present(state'.jwt)
       /\ Present(state'.userSalt)
       /\ Present(state'.zkLoginAddress)
       /\ Present(state'.zkProof)
       /\ Str(toString(state'.ephemeralKeyPair.maxEpoch)) = StoredEpoch
       /\ Str(state'.ephemeralKeyPair.randomness) = StoredRand
       /\ Str(state'.jwt.token) = StoredToken
       /\ JSONstringify(state'.userSalt) = StoredSalt
       /\ JSONstringify(state'.zkLoginAddress) = StoredAddress
       /\ calls' = <<>>
       /\ pending' = EmptyBag
    ]_vars

\* a persisted record that restoration can use
\* (key material: all three there and the private key loads)
KeyMaterialValid == KeyMaterialStored /\ StoredKey.t = "str"
TokenValid == Truthy(StoredToken) /\ StoredToken.t = "str" /\ Decodable(StoredToken.v)
SaltValid == IsJSON(StoredSalt)
AddressValid == IsJSON(StoredAddress)
ProofValid == IsJSON(StoredProof)

\* the highest step whose persisted record is valid
HighestValidRecord ==
  IF ProofValid THEN 6
  ELSE IF AddressValid THEN 5
  ELSE IF SaltValid THEN 4
  ELSE IF TokenValid THEN 3
  ELSE IF KeyMaterialValid THEN 1
  ELSE 0

\* C12: whatever the other persisted records are (present, absent or
\* corrupted), construction restores into state every fragment whose own
\* record is valid.
C12_FragmentsRestoredIndependently ==
  [][Construct =>
       /\ KeyMaterialValid =>
            /\ Present(state'.ephemeralKeyPair)
            /\ Str(state'.ephemeralKeyPair.keyPair) = StoredKey
       /\ TokenValid => state'.jwt = decodeJwtToken(StoredToken.v)
       /\ SaltValid => state'.userSalt = JSONparse(StoredSalt)
       /\ AddressValid => state'.zkLoginAddress = JSONparse(StoredAddress)
       /\ ProofValid => state'.zkProof = JSONparse(StoredProof)
    ]_vars

\* C13: when one of the three key-material records is missing, construction
\* restores no key material, gives currentStep no credit for step 1, sets no
\* error and starts exactly one step-1 invocation; when all three are there
\* it starts none.
C13_MissingKeyMaterialRegenerates ==
  [][Construct =>
       IF ~KeyMaterialStored
         THEN /\ ~Present(state'.ephemeralKeyPair)
              /\ state'.currentStep = HighestRecord'
              /\ state'.currentStep # 1
              /\ ~Present(state'.error)
              /\ ~EmittedIn(emitted', "error")
              /\ pending' = SetToBag({P("generateEphemeralKeyPair", "epoch", Absent)})
              /\ Len(calls') = 1 /\ calls'[1].adapter = "getCurrentEpoch"
         ELSE pending' = EmptyBag /\ calls' = <<>>
    ]_vars

\* a client constructed over stores without randomness but with a salt:
\* the salt is restored and step 1 is under way
C13_Witness ==
  /\ ~Truthy(StoredRand)
  /\ Truthy(StoredKey)
  /\ ~Present(state.ephemeralKeyPair)
  /\ Present(state.userSalt)
  /\ state.currentStep = 4
  /\ CalledIn(calls, "getCurrentEpoch")
  /\ BagCardinality(pending) = 1

\* C14: a persisted token that does not decode, and a persisted salt,
\* address or proof that does not parse, is removed from its store by
\* construction; its sub-record stays absent and gives no step credit (nor
\* isReady), and no error is set or notified.
C14_CorruptRecordsDropped ==
  [][Construct =>
       /\ (Truthy(StoredToken) /\ ~TokenValid) =>
            ~Present(StoredToken') /\ ~Present(state'.jwt)
       /\ (Truthy(StoredSalt) /\ ~SaltValid) =>
            ~Present(StoredSalt') /\ ~Present(state'.userSalt)
       /\ (Truthy(StoredAddress) /\ ~AddressValid) =>
            ~Present(StoredAddress') /\ ~Present(state'.zkLoginAddress)
       /\ (Truthy(StoredProof) /\ ~ProofValid) =>
            ~Present(StoredProof') /\ ~Present(state'.zkProof) /\ ~state'.isReady
       /\ state'.currentStep = HighestRecord'
       /\ ~Present(state'.error)
       /\ ~EmittedIn(emitted', "error")
    ]_vars

\* C15: right after construction currentStep is the highest step among the
\* restored fragments (0 if there is none), and a fragment is restored, and
\* credited, exactly when its own persisted record is valid.
C15_StepIsHighestRestored ==
  [][Construct =>
       /\ state'.currentStep = HighestRecord'
       /\ state'.currentStep = HighestValidRecord
    ]_vars

\* C16: construction over stores that hold a valid salt record and nothing
\* else of the client gives a currentStep below 4.
C16_SaltAloneBelowFour ==
  [][(/\ Construct
      /\ SaltValid
      /\ ~Present(StoredKey) /\ ~Present(StoredEpoch) /\ ~Present(StoredRand)
      /\ ~Present(StoredToken) /\ ~Present(StoredAddress) /\ ~Present(StoredProof))
       => ~(state'.currentStep >= 4)
    ]_vars

-----------------------------------------------------------------------------
(* Failures *)

Operations ==
  StepOps \cup {"redirectToOAuth", "executeTransaction", "requestTestTokens"}

\* the code each operation's ZkLoginError is to carry
ErrorCode(op) ==
  CASE op = "generateEphemeralKeyPair" -> "KEYPAIR_GENERATION_FAILED"
    [] op = "redirectToOAuth" -> "OAUTH_REDIRECT_FAILED"
    [] op = "handleOAuthCallback" -> "OAUTH_CALLBACK_FAILED"
    [] op = "generateSalt" -> "SALT_GENERATION_FAILED"
    [] op = "generateAddress" -> "ADDRESS_GENERATION_FAILED"
    [] op = "getZkProof" -> "ZK_PROOF_FAILED"
    [] op = "executeTransaction" -> "TRANSACTION_EXECUTION_FAILED"
    [] op = "requestTestTokens" -> "FAUCET_REQUEST_FAILED"

\* the text each operation's failure message starts with
ErrorText(op) ==
  CASE op = "generateEphemeralKeyPair" -> "Failed to generate ephemeral key pair"
    [] op = "redirectToOAuth" -> "Failed to redirect to OAuth"
    [] op = "handleOAuthCallback" -> "Failed to handle OAuth callback"
    [] op = "generateSalt" -> "Failed to generate salt"
    [] op = "generateAddress" -> "Failed to generate address"
    [] op = "getZkProof" -> "Failed to get ZK proof"
    [] op = "executeTransaction" -> "Failed to execute transaction"
    [] op = "requestTestTokens" -> "Failed to request test tokens"

\* the step number of an operation that has one
NumberedOps == Operations \ {"requestTestTokens"}
ErrorStep(op) ==
  CASE op \in StepOps -> StepNo(op)
    [] op = "redirectToOAuth" -> 2
    [] op = "executeTransaction" -> 7

\* the failure of invocation f in the turn that ends in the primed state:
\* state.error is its message, one `error` notification carries that
\* message, and the ZkLoginError has the operation's code
FailureRecorded(f) ==
  /\ f.op \in Operations
  /\ state'.error = Message(ErrorText(f.op), "cause")
  /\ Cardinality({j \in DOMAIN emitted' : emitted'[j].name = "error"}) = 1
  /\ \A j \in DOMAIN emitted' :
        emitted'[j].name = "error" => emitted'[j].arg = state'.error
  /\ f.code = ErrorCode(f.op)

\* C17 as claimed: every operation that fails sets state.error to the
\* failure message, emits exactly one `error` notification carrying it, and
\* throws a ZkLoginError with the operation's code and a step number.
C17_FailureIsStepTagged ==
  [][\A i \in DOMAIN done' :
       ~done'[i].ok => FailureRecorded(done'[i]) /\ done'[i].step \in 1..7
    ]_vars

\* C17 amended: every operation that fails sets state.error to the failure
\* message, emits exactly one `error` notification carrying it, and throws a
\* ZkLoginError with the operation's code; the error of steps 1-6 and of
\* executeTransaction carries the step number (1-7), the error of the faucet
\* request carries no step.
C17_FailureIsTagged ==
  [][\A i \in DOMAIN done' :
       ~done'[i].ok =>
          /\ FailureRecorded(done'[i])
          /\ done'[i].op \in NumberedOps => done'[i].step = ErrorStep(done'[i].op)
          /\ done'[i].op = "requestTestTokens" => done'[i].step = NoStep
    ]_vars

\* the faucet request of a client with an address failed
C17_Witness ==
  /\ ThrewIn(done, "requestTestTokens")
  /\ Present(state.zkLoginAddress)
  /\ EmittedIn(emitted, "error")
  /\ state.error = Message(ErrorText("requestTestTokens"), "cause")

\* C18: when a step that the client invoked itself fails, the operation
\* that invoked it does not return normally in that turn: the error reaches
\* its caller.
C18_AutoFailurePropagates ==
  [][Threw(done') => \A j \in DOMAIN done' : ~done'[j].ok]_vars

\* C20: while key material is present and the turn is neither reset() nor the
\* construction of a new client, the key pair, maxEpoch and randomness in
\* state and in the ephemeral store stay as they are.
C20_KeyMaterialImmutable ==
  [][(/\ Present(state.ephemeralKeyPair)
      /\ ~Succeeded(done', "reset")
      /\ ~Succeeded(done', "constructor")) =>
       /\ Present(state'.ephemeralKeyPair)
       /\ state'.ephemeralKeyPair.keyPair = state.ephemeralKeyPair.keyPair
       /\ state'.ephemeralKeyPair.maxEpoch = state.ephemeralKeyPair.maxEpoch
       /\ state'.ephemeralKeyPair.randomness = state.ephemeralKeyPair.randomness
       /\ StoredKey' = StoredKey
       /\ StoredEpoch' = StoredEpoch
       /\ StoredRand' = StoredRand
    ]_vars

-----------------------------------------------------------------------------
(* Step 5 invoked twice: the client has key material, a token and a salt,   *)
(* the generateAddress that generateSalt invoked is waiting for its balance *)
(* lookup, and the caller invokes generateAddress as well.  The lookups     *)
(* may answer different balances.                                           *)

RaceUrl ==
  [hash |-> [id_token |-> Str(TokOk), error |-> Absent],
   query |-> [id_token |-> Absent, error |-> Absent]]

\* the client after step 1, the callback and the salt service's answer
RaceStart(ls, currentEpoch, k, r, restored) ==
  LET m1 == ChainStart(ls, currentEpoch, k, r, restored)
      m2 == handleOAuthCallback(m1, RaceUrl)
  IN generateSaltOk(Resume(m2, P("generateSalt", "salt", Absent)), "123")

InitRace ==
  \E ls \in {ForeignStore, ReturningStore}, e \in ChainEpochs,
     k \in Keys, r \in Rands, restored \in BOOLEAN :
    LET m == RaceStart(ls, e, k, r, restored)
    IN /\ state = m.st
       /\ sessionStorage = m.ss
       /\ localStorage = m.ls
       /\ pending = m.pend
       /\ emitted = <<>>
       /\ calls = <<>>
       /\ done = <<>>
       /\ listeners = NoListeners
       /\ delivered = <<>>

NextRace ==
  \/ GenerateAddress
  \/ ChainBalanceAnswer
  \/ ChainProofAnswer

RaceSpec == InitRace /\ [][NextRace]_vars

\* C19: every generateAddress invoked with token and salt present issues
\* its own balance lookup and suspends; every one that resumes completes
\* successfully, issues its own proof request (the step 6 it invokes), and
\* leaves in state and in the durable store the address record of that very
\* invocation, so that after two of them the record is the one of the
\* invocation that resumed last.
C19_ConcurrentAddressLastWins ==
  [][/\ (GenerateAddress /\ Present(state.jwt) /\ Present(state.userSalt)) =>
          /\ Len(calls') = 1 /\ calls'[1].adapter = "getBalance"
          /\ BagCardinality(pending') = BagCardinality(pending) + 1
          /\ done' = <<>>
     /\ ChainBalanceAnswer =>
          /\ Succeeded(done', "generateAddress")
          /\ ~Threw(done')
          /\ Len(calls') = 1 /\ calls'[1].adapter = "prover"
          /\ CopiesIn(P("getZkProof", "prover", Absent), pending')
               = CopiesIn(P("getZkProof", "prover", Absent), pending) + 1
          /\ \E j \in DOMAIN emitted' :
               /\ emitted'[j].name = "address:generated"
               /\ state'.zkLoginAddress = emitted'[j].arg
               /\ StoredAddress' = JSONstringify(emitted'[j].arg)
    ]_vars

\* two invocations of step 5 were suspended together and both have resumed,
\* the last one with a balance of 7: each left a proof request behind
C19_Witness ==
  /\ Succeeded(done, "generateAddress")
  /\ CopiesIn(P("getZkProof", "prover", Absent), pending) = 2
  /\ Suspended("generateAddress", "balance") = {}
  /\ state.zkLoginAddress.balance = Str("7")
  /\ StoredAddress = JSONstringify(state.zkLoginAddress)

-----------------------------------------------------------------------------
(* Frame conditions and notifications of currentStep *)

\* the turn left currentStep, isReady, every sub-record and both stores alone
FrameKept ==
  /\ state'.currentStep = state.currentStep
  /\ state'.isReady = state.isReady
  /\ state'.ephemeralKeyPair = state.ephemeralKeyPair
  /\ state'.jwt = state.jwt
  /\ state'.userSalt = state.userSalt
  /\ state'.zkLoginAddress = state.zkLoginAddress
  /\ state'.zkProof = state.zkProof
  /\ sessionStorage' = sessionStorage
  /\ localStorage' = localStorage

\* C21: executeTransaction issues its signing call only when isReady is
\* true, and none of its turns (the call, the answer of the signature, the
\* answer of the submission), successful or failed, changes currentStep,
\* isReady, a sub-record or a store.
C21_ExecuteTransactionFrame ==
  [][/\ (ExecuteTransaction /\ calls' # <<>>) => state.isReady
     /\ (ExecuteTransaction \/ SignAnswers \/ SubmitAnswers) => FrameKept
    ]_vars

\* C22: redirectToOAuth navigates only when key material is present, and for
\* every provider and outcome it leaves currentStep, every sub-record and
\* both stores unchanged.
C22_RedirectFrame ==
  [][RedirectToOAuth =>
       /\ CalledIn(calls', "navigate") => Present(state.ephemeralKeyPair)
       /\ FrameKept
    ]_vars

\* C23: whenever a turn of the client changes currentStep (a successful
\* step, a failure, reset), a step:changed notification carrying the new
\* value is emitted in that turn.
C23_StepChangeNotified ==
  [][(state'.currentStep # state.currentStep /\ ~Succeeded(done', "constructor")) =>
       \E j \in DOMAIN emitted' :
         /\ emitted'[j].name = "step:changed"
         /\ emitted'[j].arg.step = state'.currentStep
    ]_vars

\* C24: every step:changed(s) is emitted with an s that differs from the
\* value currentStep had before the operation that emitted it.
C24_StepChangedOnlyOnChange ==
  [][\A j \in DOMAIN emitted' :
       emitted'[j].name = "step:changed" => emitted'[j].arg.step # state.currentStep
    ]_vars

-----------------------------------------------------------------------------
(* Subscribers: the caller subscribes and unsubscribes handlers, publishes  *)
(* an event itself (emit is a public method of the client), and runs the    *)
(* chain of steps 3-6 once while handlers are subscribed.  A handler        *)
(* returns, throws, unsubscribes itself or subscribes itself once more.     *)

MaxListeners == 2
Handlers ==
  {Handler("a", "return"), Handler("b", "throw"),
   Handler("c", "offSelf"), Handler("d", "onSelf")}
PublishEvents == {"salt:generated", "error"}

\* client.emit(event) called from outside: the handlers run, emit returns
\* unless a handler's exception escapes forEach
publish(m, event) ==
  IF emit(m.listeners, event).threw
    THEN Throw(Emit(m, event, Absent), "emit", "none", NoStep)
    ELSE Return(Emit(m, event, Absent), "emit")

On(event, h) ==
  /\ Len(listeners[event]) < MaxListeners
  /\ Becomes([Now EXCEPT !.listeners = on(@, event, h)])
Off(event, h) ==
  /\ h \in Handlers
  /\ Becomes([Now EXCEPT !.listeners = off(@, event, h)])
Publish(event) ==
  /\ Len(emit(listeners, event).listeners[event]) <= MaxListeners
  /\ Becomes(publish(Now, event))

Subscribe == \E event \in PublishEvents, h \in Handlers : On(event, h)
Unsubscribe == \E event \in PublishEvents, h \in Handlers : Off(event, h)
PublishAny == \E event \in PublishEvents : Publish(event)
PublishCallback ==
  /\ ~Present(state.jwt)
  /\ Becomes(handleOAuthCallback(Now, RaceUrl))

InitPublish ==
  LET m == ChainStart(ForeignStore, 0, "k1", "r1", FALSE)
  IN /\ state = m.st
     /\ sessionStorage = m.ss
     /\ localStorage = m.ls
     /\ pending = m.pend
     /\ emitted = <<>>
     /\ calls = <<>>
     /\ done = <<>>
     /\ listeners = NoListeners
     /\ delivered = <<>>

NextPublish ==
  \/ Subscribe
  \/ Unsubscribe
  \/ PublishAny
  \/ PublishCallback
  \/ ChainSaltAnswer
  \/ ChainBalanceAnswer
  \/ ChainProofAnswer

PublishSpec == InitPublish /\ [][NextPublish]_vars

\* one invocation of every handler subscribed to event, in subscription order
AllInOrder(event) ==
  [i \in 1..Len(listeners[event]) |->
     [event |-> event, id |-> listeners[event][i].id]]
\* the handler invocations of the turn that were made for event
DeliveredFor(event) == SelectSeq(delivered', LAMBDA d : d.event = event)
\* no handler subscribed to event touches the subscriptions when it runs
OnlyReturnOrThrow(event) ==
  \A i \in 1..Len(listeners[event]) : listeners[event][i].does \in {"return", "throw"}

\* C25: when the handlers subscribed to an event only return or throw, a
\* publish of the event invokes every one of them, in order, and returns
\* normally; and a step that publishes completes whatever its handlers do:
\* step 4 stores and sets the salt, emits salt:generated and step:changed,
\* returns, and invokes step 5.
C25_ListenerFailureIsolated ==
  [][/\ \A event \in PublishEvents :
          (Publish(event) /\ OnlyReturnOrThrow(event)) =>
             /\ Succeeded(done', "emit")
             /\ delivered' = AllInOrder(event)
     /\ ChainSaltAnswer =>
          /\ Succeeded(done', "generateSalt")
          /\ Present(state'.userSalt)
          /\ StoredSalt' = JSONstringify(state'.userSalt)
          /\ EmittedIn(emitted', "salt:generated")
          /\ EmittedIn(emitted', "step:changed")
          /\ CalledIn(calls', "getBalance") \/ ThrewIn(done', "generateAddress")
          /\ OnlyReturnOrThrow("salt:generated") =>
               DeliveredFor("salt:generated") = AllInOrder("salt:generated")
    ]_vars

\* step 4 completed and invoked step 5 although the first handler of
\* salt:generated threw; the handler after it was invoked as well
C25_Witness ==
  /\ Succeeded(done, "generateSalt")
  /\ CalledIn(calls, "getBalance")
  /\ Len(delivered) >= 2
  /\ delivered[1] = [event |-> "salt:generated", id |-> "b"]
  /\ delivered[2] = [event |-> "salt:generated", id |-> "a"]

\* C26: a publish invokes every handler that is subscribed to the event
\* when publish is called, once per registration and in subscription order,
\* whatever the handlers do.
C26_PublishDeliversToAll ==
  [][\A event \in PublishEvents : Publish(event) => delivered' = AllInOrder(event)]_vars

-----------------------------------------------------------------------------
(* Construction from a caller-supplied configuration, over stores holding   *)
(* any combination of records of an earlier session.                        *)

ConfigValues == {Absent, Str(""), Str("cid")}
Configs == [clientId : ConfigValues, redirectUri : ConfigValues]

\* validateConfig: the message of the Error it throws, Absent when it returns
validateConfig(config) ==
  IF ~Truthy(config.clientId) THEN Str("clientId is required")
  ELSE IF ~Truthy(config.redirectUri) THEN Str("redirectUri is required")
  ELSE Absent

\* a constructor that restores the state before it validates the configuration
newZkLoginClientValidateLast(config, ss, ls) ==
  IF Present(validateConfig(config))
    THEN Throw(restoreState(Machine(InitialState, ss, ls, EmptyBag)),
               "constructor", "none", NoStep)
    ELSE constructor(ss, ls)

\* new ZkLoginClient(config): validateConfig runs first and its Error leaves
\* the constructor before the stores are created
newZkLoginClient(config, ss, ls) ==
  IF Present(validateConfig(config))
    THEN Throw(Machine(InitialState, ss, ls, EmptyBag), "constructor", "none", NoStep)
    ELSE constructor(ss, ls)

ConstructWith(config) ==
  /\ config \in Configs
  /\ Becomes(newZkLoginClient(config, sessionStorage, localStorage))
ConstructAny == \E config \in Configs : ConstructWith(config)

NextConfig ==
  \/ ConstructAny
  \/ EpochAnswers

ConfigSpec == InitRestore /\ [][NextConfig]_vars

InvalidConfig(config) == ~Truthy(config.clientId) \/ ~Truthy(config.redirectUri)

\* C27: construction with clientId or redirectUri missing or empty throws,
\* and nothing else has happened: both stores are as they were, no record
\* of them has reached the client's state, no adapter was called, nothing
\* was notified and no invocation of step 1 is under way.
C27_InvalidConfigThrowsFirst ==
  [][\A config \in Configs :
       (ConstructWith(config) /\ InvalidConfig(config)) =>
          /\ ThrewIn(done', "constructor")
          /\ sessionStorage' = sessionStorage
          /\ localStorage' = localStorage
          /\ state' = InitialState
          /\ calls' = <<>>
          /\ emitted' = <<>>
          /\ pending' = EmptyBag
          /\ done' = <<[op |-> "constructor", ok |-> FALSE, code |-> "none",
                         step |-> NoStep]>>
    ]_vars

\* a construction threw over stores without key material, which a valid
\* configuration would have regenerated by invoking step 1
C27_Witness ==
  /\ ThrewIn(done, "constructor")
  /\ ~Present(StoredKey)
  /\ Present(StoredToken)
  /\ pending = EmptyBag

-----------------------------------------------------------------------------
(* Callbacks: after step 1 the caller hands callback URLs to step 3, any    *)
(* number of times, with every combination of id_token and error in the     *)
(* fragment and in the query; the adapters answer successfully.             *)

CallbackTokens == {Absent, Str(TokOk), Str(TokBad)}
CallbackErrors == {Absent, Str(""), Str("access_denied")}
CallbackUrls ==
  {[hash |-> [id_token |-> ht, error |-> he],
    query |-> [id_token |-> qt, error |-> qe]] :
     ht \in CallbackTokens, qt \in {Absent, Str(TokOk)},
     he \in CallbackErrors, qe \in {Absent, Str("access_denied")}}

CallbackOf(url) ==
  /\ Room
  /\ Becomes(handleOAuthCallback(Now, url))
Callback == \E url \in CallbackUrls : CallbackOf(url)

NextCallback ==
  \/ Callback
  \/ ChainSaltAnswer
  \/ ChainBalanceAnswer
  \/ ChainProofAnswer

CallbackSpec == InitChain /\ [][NextCallback]_vars

\* URLSearchParams.get(name) || ... : a parameter with an empty value reads
\* as a parameter that is not there
Carries(value) == Truthy(value)
\* the token step 3 would use: the fragment's, else the query's
TokenOf(url) == Or(url.hash.id_token, url.query.id_token)
\* the failure cases: an error in fragment or query, no id_token in either,
\* or an id_token that cannot be decoded
MustFail(url) ==
  \/ Carries(url.hash.error) \/ Carries(url.query.error)
  \/ ~Carries(url.hash.id_token) /\ ~Carries(url.query.id_token)
  \/ ~Decodable(TokenOf(url).v)

\* C28: a callback whose URL carries an error in fragment or query (with or
\* without an id_token), or no id_token, or an undecodable id_token, fails;
\* and a failed callback leaves the stored token record and state.jwt as
\* they were and invokes no step 4: no salt request goes out and no new
\* invocation is suspended.
C28_FailedCallbackKeepsToken ==
  [][\A url \in CallbackUrls :
       CallbackOf(url) =>
         /\ MustFail(url) => ThrewIn(done', "handleOAuthCallback")
         /\ ThrewIn(done', "handleOAuthCallback") =>
              /\ StoredToken' = StoredToken
              /\ state'.jwt = state.jwt
              /\ ~CalledIn(calls', "salt")
              /\ pending' = pending
    ]_vars

\* a callback failed after an earlier one had succeeded: the token and the
\* decoded jwt of the earlier one are still there
C28_Witness ==
  /\ ThrewIn(done, "handleOAuthCallback")
  /\ StoredToken = Str(TokOk)
  /\ Present(state.jwt)
  /\ state.currentStep = 3

-----------------------------------------------------------------------------
(* Store instances: several BrowserStorage instances, each with its own     *)
(* prefix, over the one localStorage of the origin.                         *)

DefaultPrefix == <<"zklogin_">>            \* new BrowserStorage()
OtherPrefix == <<"other_">>
Prefixes == {DefaultPrefix, StoragePrefix, OtherPrefix}
StoreKeys == {USER_SALT, ZKLOGIN_ADDRESS}
StoreValues == {Str("v1"), Str("v2")}

StorageSet(prefix, key, value) ==
  /\ localStorage' = StoreSet(localStorage, prefix, key, value)
  /\ UNCHANGED <<state, sessionStorage, pending, emitted, calls, done, listeners, delivered>>
StorageRemove(prefix, key) ==
  /\ localStorage' = StoreRemove(localStorage, prefix, key)
  /\ UNCHANGED <<state, sessionStorage, pending, emitted, calls, done, listeners, delivered>>
StorageClear(prefix) ==
  /\ localStorage' = StoreClear(localStorage, prefix)
  /\ UNCHANGED <<state, sessionStorage, pending, emitted, calls, done, listeners, delivered>>

\* localStorage after every instance has set every key
UsedStore == [k \in {getKey(prefix, key) : prefix \in Prefixes, key \in StoreKeys} |-> Str("v1")]

InitStore ==
  /\ state = InitialState
  /\ sessionStorage = EmptyStore
  /\ localStorage \in {EmptyStore, UsedStore}
  /\ pending = EmptyBag
  /\ emitted = <<>>
  /\ calls = <<>>
  /\ done = <<>>
  /\ listeners = NoListeners
  /\ delivered = <<>>

NextStore ==
  \/ \E prefix \in Prefixes, key \in StoreKeys, value \in StoreValues :
       StorageSet(prefix, key, value)
  \/ \E prefix \in Prefixes, key \in StoreKeys : StorageRemove(prefix, key)
  \/ \E prefix \in Prefixes : StorageClear(prefix)

StoreSpec == InitStore /\ [][NextStore]_vars

\* what the instance with this prefix reads, key by key
View(store, prefix) == [key \in StoreKeys |-> StoreGet(store, prefix, key)]
\* a set, remove or clear through the instance with this prefix
Through(prefix) ==
  \/ \E key \in StoreKeys, value \in StoreValues : StorageSet(prefix, key, value)
  \/ \E key \in StoreKeys : StorageRemove(prefix, key)
  \/ StorageClear(prefix)

\* C29: a set, remove or clear through one instance leaves every record of
\* an instance with a different prefix as it was: the other instance reads
\* the same value for every key before and after.  (The keys of two
\* instances never coincide here, so what an instance reads is what was
\* written through it.)
C29_PrefixesIsolateInstances ==
  [][\A p \in Prefixes, q \in Prefixes :
       (p # q /\ Through(p)) => View(localStorage', q) = View(localStorage, q)]_vars

-----------------------------------------------------------------------------
(* The README's Basic Usage on the callback page, after step 1:             *)
(*   client.handleOAuthCallback(); client.generateSalt();                   *)
(*   await client.generateAddress(); await client.getZkProof();             *)
(* The first three calls run in one turn, up to the first await of the      *)
(* script; an exception ends the script.  Every adapter answers             *)
(* successfully.                                                            *)

\* the script, suspended at one of its awaits
Script(pc) == P("BasicUsage", pc, Absent)

\* handleOAuthCallback(); generateSalt(); await generateAddress()
basicUsage(m, url) ==
  LET m1 == handleOAuthCallback(m, url)
      m2 == generateSalt(m1)
      m3 == generateAddress(m2)
  IN IF Threw(m1.fin) THEN m1
     ELSE IF Threw(m3.fin) THEN m3
     ELSE Suspend(m3, Script("generateAddress"))

\* generateAddress() has returned to the script: await getZkProof()
basicUsageGetZkProof(m) ==
  LET m1 == getZkProof(Resume(m, Script("generateAddress")))
  IN IF Threw(m1.fin) THEN m1 ELSE Suspend(m1, Script("getZkProof"))

BasicUsage ==
  /\ ~Present(state.jwt)
  /\ done = <<>>
  /\ Becomes(basicUsage(Now, RaceUrl))

BasicUsageGetZkProof ==
  /\ Suspended("BasicUsage", "generateAddress") # {}
  /\ Succeeded(done, "generateAddress")
  /\ Becomes(basicUsageGetZkProof(Now))

NextReadme ==
  \/ BasicUsage
  \/ BasicUsageGetZkProof
  \/ ChainSaltAnswer
  \/ ChainBalanceAnswer
  \/ ChainProofAnswer

ReadmeSpec == InitChain /\ [][NextReadme]_vars

\* C30: the documented call sequence works: no call the script makes
\* throws, when every adapter answers successfully.
C30_ReadmeSequenceSucceeds ==
  [][(BasicUsage \/ BasicUsageGetZkProof) => ~Threw(done')]_vars

-----------------------------------------------------------------------------
(* Order inside a successful step: store, state, notifications, next step   *)

\* the notification that carries a step's sub-record, with the step's
\* number, the field of the state and the record of the store it is about
RecordEvents ==
  {"keypair:generated", "jwt:received", "salt:generated", "address:generated",
   "proof:received"}
EventStep(name) ==
  CASE name = "keypair:generated" -> 1
    [] name = "jwt:received" -> 3
    [] name = "salt:generated" -> 4
    [] name = "address:generated" -> 5
    [] name = "proof:received" -> 6
SubRecord(st, name) ==
  CASE name = "keypair:generated" -> st.ephemeralKeyPair
    [] name = "jwt:received" -> st.jwt
    [] name = "salt:generated" -> st.userSalt
    [] name = "address:generated" -> st.zkLoginAddress
    [] name = "proof:received" -> st.zkProof
\* the record of the step is in its store, as written from arg
RecordStored(ss, ls, name, arg) ==
  CASE name = "keypair:generated" ->
         /\ StoreGet(ss, StoragePrefix, EPHEMERAL_KEYPAIR) = Str(arg.keyPair)
         /\ StoreGet(ss, StoragePrefix, MAX_EPOCH) = Str(toString(arg.maxEpoch))
         /\ StoreGet(ss, StoragePrefix, RANDOMNESS) = Str(arg.randomness)
    [] name = "jwt:received" ->
         StoreGet(ss, StoragePrefix, JWT_TOKEN) = Str(arg.token)
    [] name = "salt:generated" ->
         StoreGet(ls, StoragePrefix, USER_SALT) = JSONstringify(arg)
    [] name = "address:generated" ->
         StoreGet(ls, StoragePrefix, ZKLOGIN_ADDRESS) = JSONstringify(arg)
    [] name = "proof:received" ->
         StoreGet(ss, StoragePrefix, ZK_PROOF) = JSONstringify(arg)

\* a handler of the record notification e sees the step's work done, and
\* nothing of the next step yet
SeesRecord(e) ==
  /\ SubRecord(e.sees.st, e.name) = e.arg
  /\ e.sees.st.currentStep >= EventStep(e.name)
  /\ RecordStored(e.sees.ss, e.sees.ls, e.name, e.arg)
  /\ e.sees.calls = <<>>
\* the notifications that follow the record notification in the same step
\* see what it saw
SeesSame(e, first) ==
  /\ e.sees = first.sees
  /\ e.name = "step:changed" => e.arg.step = e.sees.st.currentStep

\* C31: in every successful step the record is stored and the sub-record
\* and currentStep are set before the step's first notification, so a
\* handler of any of the step's notifications reads the new sub-record from
\* getState() and the new record from the store; and no adapter call of the
\* auto-invoked next step has gone out when the step's notifications are
\* delivered.
C31_PersistUpdateNotify ==
  [][\A j \in DOMAIN emitted' :
       /\ emitted'[j].name \in RecordEvents => SeesRecord(emitted'[j])
       /\ (j > 1 /\ emitted'[j].name = "step:changed"
                 /\ emitted'[j - 1].name \in RecordEvents) =>
            SeesSame(emitted'[j], emitted'[j - 1])
       /\ (j > 2 /\ emitted'[j].name = "ready"
                 /\ emitted'[j - 2].name = "proof:received") =>
            /\ SeesSame(emitted'[j], emitted'[j - 2])
            /\ emitted'[j].sees.st.isReady
    ]_vars

\* step 5 succeeded: its notifications went out and step 6 has called the
\* proof service in the same turn
C31_Witness ==
  /\ Succeeded(done, "generateAddress")
  /\ EmittedIn(emitted, "address:generated")
  /\ CalledIn(calls, "prover")

-----------------------------------------------------------------------------
(* The notifications of the chain, turn by turn *)

\* the notifications of a turn: names, and the step a step:changed carries
Notified(ev) ==
  [j \in DOMAIN ev |->
     IF ev[j].name = "step:changed" THEN <<ev[j].name, ev[j].arg.step>>
     ELSE <<ev[j].name>>]
\* the adapters called in a turn
Called(cs) == [j \in DOMAIN cs |-> cs[j].adapter]
\* the token is valid and the salt, once answered, is a number
ValidRun(st) ==
  /\ Present(st.jwt)
  /\ st.jwt.token = TokOk
  /\ Present(st.userSalt) => Numeric(st.userSalt.salt)

\* C32: with key material present, one handleOAuthCallback with a valid
\* token and adapters that succeed, the callback emits jwt:received,
\* step:changed(3) and calls the salt service; the salt answer emits
\* salt:generated, step:changed(4) and calls the balance lookup; the balance
\* answer emits address:generated, step:changed(5) and calls the proof
\* service; the proof answer emits proof:received, step:changed(6), ready
\* and calls nothing; at most one call is out at any time, so each turn
\* happens once.
C32_ChainNotifiesInOrder ==
  [][ValidRun(state') =>
       /\ BagCardinality(pending') <= 1
       /\ ChainCallback =>
            /\ Notified(emitted') = <<<<"jwt:received">>, <<"step:changed", 3>>>>
            /\ Called(calls') = <<"salt">>
       /\ ChainSaltAnswer =>
            /\ Notified(emitted') = <<<<"salt:generated">>, <<"step:changed", 4>>>>
            /\ Called(calls') = <<"getBalance">>
       /\ ChainBalanceAnswer =>
            /\ Notified(emitted') = <<<<"address:generated">>, <<"step:changed", 5>>>>
            /\ Called(calls') = <<"prover">>
       /\ ChainProofAnswer =>
            /\ Notified(emitted') =
                 <<<<"proof:received">>, <<"step:changed", 6>>, <<"ready">>>>
            /\ Called(calls') = <<>>
            /\ pending' = EmptyBag
    ]_vars

-----------------------------------------------------------------------------
(* Reset while operations are suspended *)

\* no record of steps 3-6 in the state or in the stores
NoSessionRecords(st, ss, ls) ==
  /\ ~Present(st.jwt)
  /\ ~Present(st.userSalt)
  /\ ~Present(st.zkLoginAddress)
  /\ ~Present(st.zkProof)
  /\ ~st.isReady
  /\ ~Present(StoreGet(ss, StoragePrefix, JWT_TOKEN))
  /\ ~Present(StoreGet(ss, StoragePrefix, ZK_PROOF))
  /\ ~Present(StoreGet(ls, StoragePrefix, USER_SALT))
  /\ ~Present(StoreGet(ls, StoragePrefix, ZKLOGIN_ADDRESS))

\* C33: reset starts nothing but step 1, so an invocation of step 4, 5 or 6
\* that is suspended when reset has returned was started before the reset;
\* when its adapter answers, no sub-record, no isReady and no record of it
\* appears in the state or in a store.
C33_ResetIsolatesSessions ==
  [][(Succeeded(done, "reset") /\ (SaltAnswers \/ BalanceAnswers \/ ProofAnswers)) =>
       NoSessionRecords(state', sessionStorage', localStorage')]_vars

-----------------------------------------------------------------------------
(* The state and the stores side by side *)

\* C34: every sub-record of the state has its record in its store, with the
\* same content: maxEpoch and randomness of the key material, the token and
\* the proof in sessionStorage; the salt, and address and addressSeed of the
\* derived address, in localStorage.
C34_MemoryMatchesStores ==
  /\ Present(state.ephemeralKeyPair) =>
       /\ StoredEpoch = Str(toString(state.ephemeralKeyPair.maxEpoch))
       /\ StoredRand = Str(state.ephemeralKeyPair.randomness)
  /\ Present(state.jwt) => StoredToken = Str(state.jwt.token)
  /\ Present(state.zkProof) => StoredProof = JSONstringify(state.zkProof)
  /\ Present(state.userSalt) => StoredSalt = JSONstringify(state.userSalt)
  /\ Present(state.zkLoginAddress) =>
       /\ IsJSON(StoredAddress)
       /\ JSONparse(StoredAddress).address = state.zkLoginAddress.address
       /\ JSONparse(StoredAddress).addressSeed = state.zkLoginAddress.addressSeed

\* the chain has run to the proof: all five sub-records are in the state
C34_Witness ==
  /\ Present(state.ephemeralKeyPair)
  /\ Present(state.jwt)
  /\ Present(state.userSalt)
  /\ Present(state.zkLoginAddress)
  /\ Present(state.zkProof)
  /\ Succeeded(done, "getZkProof")

-----------------------------------------------------------------------------
(* Token and key material: step 1 has produced the key material BoundKey;   *)
(* the caller's first call hands over the callback URL; after that the      *)
(* caller may invoke step 1 again at any time; the adapters answer.         *)

BoundKey == "k1"

InitBind ==
  \E ls \in {ForeignStore, ReturningStore}, e \in ChainEpochs,
     r \in Rands, restored \in BOOLEAN :
    LET m == ChainStart(ls, e, BoundKey, r, restored)
    IN /\ state = m.st
       /\ sessionStorage = m.ss
       /\ localStorage = m.ls
       /\ pending = m.pend
       /\ emitted = <<>>
       /\ calls = <<>>
       /\ done = <<>>
       /\ listeners = NoListeners
       /\ delivered = <<>>

\* the callback is the first turn: BoundKey is the key material in the state
\* when the token is accepted
BindCallback ==
  /\ done = <<>>
  /\ calls = <<>>
  /\ \E url \in Urls : Becomes(handleOAuthCallback(Now, url))

NextBind ==
  \/ BindCallback
  \/ GenerateEphemeralKeyPair
  \/ EpochAnswers
  \/ ChainSaltAnswer
  \/ ChainBalanceAnswer
  \/ ChainProofAnswer

BindSpec == InitBind /\ [][NextBind]_vars

\* C35: every request to the proof service carries the key material that
\* was current when handleOAuthCallback accepted the token of the request.
C35_ProofRequestUsesBoundKey ==
  \A j \in DOMAIN calls :
    calls[j].adapter = "prover" => calls[j].arg.keyPair = BoundKey

-----------------------------------------------------------------------------
(* The nonce of the redirect *)

\* generateNonce(publicKey, maxEpoch, randomness) of this key material
NonceOf(kp) == <<kp.keyPair, kp.maxEpoch, kp.randomness>>

\* C36: whenever redirectToOAuth navigates, the nonce in the URL is not
\* empty and is the nonce of the key material held in the state, whether
\* that was generated in this session or restored from sessionStorage.
C36_RedirectCarriesNonce ==
  [][RedirectToOAuth =>
       \A j \in DOMAIN calls' :
         calls'[j].adapter = "navigate" =>
           /\ calls'[j].arg.nonce # <<>>
           /\ calls'[j].arg.nonce = NonceOf(state.ephemeralKeyPair)]_vars

-----------------------------------------------------------------------------
(* Key material under concurrent invocations of step 1 *)

\* C37: the three stored key-material records are there together or not at
\* all, and when the state holds key material the three records are its
\* private key, its maxEpoch and its randomness, and its nonce, unless it
\* was restored, is the nonce of the same three: nothing of another
\* generation is mixed in.
C37_OneGeneration ==
  /\ Present(StoredKey) = Present(StoredEpoch)
  /\ Present(StoredKey) = Present(StoredRand)
  /\ Present(state.ephemeralKeyPair) =>
       /\ StoredKey = Str(state.ephemeralKeyPair.keyPair)
       /\ StoredEpoch = Str(toString(state.ephemeralKeyPair.maxEpoch))
       /\ StoredRand = Str(state.ephemeralKeyPair.randomness)
       /\ state.ephemeralKeyPair.nonce \in {<<>>, NonceOf(state.ephemeralKeyPair)}

\* an invocation of step 1 has completed and set the key material while
\* another invocation of step 1 is still suspended at its epoch request
C37_Witness ==
  /\ Succeeded(done, "generateEphemeralKeyPair")
  /\ Suspended("generateEphemeralKeyPair", "epoch") # {}
  /\ Present(state.ephemeralKeyPair)
  /\ Present(StoredKey)

-----------------------------------------------------------------------------
(* Unsubscribing *)

\* the registrations for event other than those of h, in order
Others(ls, event, h) == SelectSeq(ls[event], LAMBDA x : x # h)

\* C38: when off(event, h) has returned, h is not registered for event any
\* more, however often it had been subscribed, so that no later publish of
\* event invokes it; the registrations of the other handlers for event and
\* all registrations for other events are as they were.
C38_UnsubscribeRemoves ==
  [][\A event \in PublishEvents, h \in Handlers :
       Off(event, h) =>
         /\ indexOf(listeners'[event], h, 1) = 0
         /\ Others(listeners', event, h) = Others(listeners, event, h)
         /\ \A other \in EventNames \ {event} : listeners'[other] = listeners[other]
    ]_vars

-----------------------------------------------------------------------------
(* One store instance over its own backing storage: the Map of a            *)
(* MemoryStorage or the browser storage of a BrowserStorage.  set, remove   *)
(* and clear are the same in both; get differs.                             *)

RoundTripValues == {Str(""), Str("v1")}

\* MemoryStorage.get: this.storage.get(getKey(key)) || null
MemoryGet(store, prefix, key) == Or(StoreGet(store, prefix, key), Absent)

\* the backing storage after every key was set
FullStore == [k \in {getKey(DefaultPrefix, key) : key \in STORAGE_KEYS} |-> Str("v1")]

InitRoundTrip ==
  /\ state = InitialState
  /\ sessionStorage = EmptyStore
  /\ localStorage \in {ForeignStore, FullStore}
  /\ pending = EmptyBag
  /\ emitted = <<>>
  /\ calls = <<>>
  /\ done = <<>>
  /\ listeners = NoListeners
  /\ delivered = <<>>

NextRoundTrip ==
  \/ \E key \in STORAGE_KEYS, value \in RoundTripValues :
       StorageSet(DefaultPrefix, key, value)
  \/ \E key \in STORAGE_KEYS : StorageRemove(DefaultPrefix, key)
  \/ StorageClear(DefaultPrefix)

RoundTripSpec == InitRoundTrip /\ [][NextRoundTrip]_vars

\* C39: in both implementations get(k) right after set(k, v) returns v, the
\* empty string included, and every other key reads as before; get(k)
\* after remove(k) returns null; get of every key after clear() returns
\* null.
C39_StoreRoundTrip ==
  [][/\ \A key \in STORAGE_KEYS, value \in RoundTripValues :
          StorageSet(DefaultPrefix, key, value) =>
            /\ StoreGet(localStorage', DefaultPrefix, key) = value
            /\ MemoryGet(localStorage', DefaultPrefix, key) = value
            /\ \A other \in STORAGE_KEYS \ {key} :
                 /\ StoreGet(localStorage', DefaultPrefix, other) =
                      StoreGet(localStorage, DefaultPrefix, other)
                 /\ MemoryGet(localStorage', DefaultPrefix, other) =
                      MemoryGet(localStorage, DefaultPrefix, other)
     /\ \A key \in STORAGE_KEYS :
          StorageRemove(DefaultPrefix, key) =>
            /\ StoreGet(localStorage', DefaultPrefix, key) = Absent
            /\ MemoryGet(localStorage', DefaultPrefix, key) = Absent
     /\ StorageClear(DefaultPrefix) =>
          \A key \in STORAGE_KEYS :
            /\ StoreGet(localStorage', DefaultPrefix, key) = Absent
            /\ MemoryGet(localStorage', DefaultPrefix, key) = Absent
    ]_vars

====
